---- MODULE Spec2Model ----
(***************************************************************************)
(* Polynomial reconstruction from roots given in mixed bases:              *)
(* src/index.js (main, extractInputData), src/polynomialSolver.js          *)
(* (multiplyPolynomials, buildPolynomial, evaluatePolynomial, verifyRoots) *)
(* and the base conversion module (convertToDecimal).                      *)
(***************************************************************************)
EXTENDS Integers, Sequences, FiniteSets

(***************************************************************************)
(* JavaScript Number, restricted to the finite integer-valued doubles.     *)
(* A Number is [neg, mag]: a sign and a magnitude held as little-endian    *)
(* limbs of radix 2^15, so that every exact sum and product can be formed  *)
(* before it is rounded to the 53-bit significand as IEEE-754 binary64     *)
(* does (round to nearest, ties to even). -0 is identified with 0; the     *)
(* bounded inputs stay far below 2^1024, so Infinity never arises.         *)
(***************************************************************************)
Radix == 2^15

SignificandBits == 53

RECURSIVE LimbBitLen(_)
LimbBitLen(x) == IF x = 0 THEN 0 ELSE 1 + LimbBitLen(x \div 2)

LimbWidth == LimbBitLen(Radix - 1)

RECURSIVE Norm(_)
Norm(m) ==
  IF m = <<>> THEN <<>>
  ELSE IF m[Len(m)] = 0 THEN Norm(SubSeq(m, 1, Len(m) - 1)) ELSE m

RECURSIVE MagOfNat(_)
MagOfNat(n) == IF n = 0 THEN <<>> ELSE <<n % Radix>> \o MagOfNat(n \div Radix)

RECURSIVE MagAddC(_, _, _)
MagAddC(a, b, c) ==
  IF a = <<>> /\ b = <<>> THEN (IF c = 0 THEN <<>> ELSE <<c>>)
  ELSE LET x == IF a = <<>> THEN 0 ELSE Head(a)
           y == IF b = <<>> THEN 0 ELSE Head(b)
           s == x + y + c
       IN  <<s % Radix>> \o MagAddC(IF a = <<>> THEN <<>> ELSE Tail(a),
                                    IF b = <<>> THEN <<>> ELSE Tail(b),
                                    s \div Radix)

MagAdd(a, b) == MagAddC(a, b, 0)

RECURSIVE MagSubB(_, _, _)
MagSubB(a, b, bw) ==
  IF a = <<>> THEN <<>>
  ELSE LET y == IF b = <<>> THEN 0 ELSE Head(b)
           d == Head(a) - y - bw
       IN  <<IF d < 0 THEN d + Radix ELSE d>>
             \o MagSubB(Tail(a), IF b = <<>> THEN <<>> ELSE Tail(b),
                        IF d < 0 THEN 1 ELSE 0)

\* a - b for magnitudes with a >= b
MagSub(a, b) == Norm(MagSubB(a, b, 0))

RECURSIVE MagCmp(_, _)
MagCmp(a, b) ==
  IF Len(a) # Len(b) THEN (IF Len(a) < Len(b) THEN -1 ELSE 1)
  ELSE IF a = <<>> THEN 0
  ELSE LET n == Len(a)
       IN  IF a[n] # b[n] THEN (IF a[n] < b[n] THEN -1 ELSE 1)
           ELSE MagCmp(SubSeq(a, 1, n - 1), SubSeq(b, 1, n - 1))

RECURSIVE MagMulLimb(_, _, _)
MagMulLimb(a, d, c) ==
  IF a = <<>> THEN (IF c = 0 THEN <<>> ELSE <<c>>)
  ELSE LET p == Head(a) * d + c
       IN  <<p % Radix>> \o MagMulLimb(Tail(a), d, p \div Radix)

ShiftLimb(m) == IF m = <<>> THEN <<>> ELSE <<0>> \o m

RECURSIVE MagMul(_, _)
MagMul(a, b) ==
  IF a = <<>> \/ b = <<>> THEN <<>>
  ELSE Norm(MagAdd(MagMulLimb(a, Head(b), 0), ShiftLimb(MagMul(a, Tail(b)))))

BitLen(m) ==
  IF m = <<>> THEN 0 ELSE LimbWidth * (Len(m) - 1) + LimbBitLen(m[Len(m)])

Bit(m, k) == (m[(k \div LimbWidth) + 1] \div 2^(k % LimbWidth)) % 2

\* some bit of m below bit k is set
LowBitsNonZero(m, k) ==
  \/ \E i \in 1..Len(m) : i - 1 < k \div LimbWidth /\ m[i] # 0
  \/ m[(k \div LimbWidth) + 1] % 2^(k % LimbWidth) # 0

ClearLow(m, k) ==
  [i \in 1..Len(m) |->
     IF i - 1 < k \div LimbWidth THEN 0
     ELSE IF i - 1 = k \div LimbWidth
          THEN m[i] - (m[i] % 2^(k % LimbWidth))
          ELSE m[i]]

Pow2Mag(k) ==
  [i \in 1..((k \div LimbWidth) + 1) |->
     IF i = (k \div LimbWidth) + 1 THEN 2^(k % LimbWidth) ELSE 0]

\* the double nearest to the exact magnitude m (ties to even)
RoundMag(m) ==
  LET nb == BitLen(m)
  IN  IF nb <= SignificandBits THEN m
      ELSE LET sh    == nb - SignificandBits
               trunc == ClearLow(m, sh)
               up    == Bit(m, sh - 1) = 1
                        /\ (LowBitsNonZero(m, sh - 1) \/ Bit(m, sh) = 1)
           IN  IF up THEN MagAdd(trunc, Pow2Mag(sh)) ELSE trunc

MkNum(neg, mag) == [neg |-> neg /\ mag # <<>>, mag |-> mag]

Zero == MkNum(FALSE, <<>>)

NumOfInt(i) == IF i < 0 THEN MkNum(TRUE, MagOfNat(-i)) ELSE MkNum(FALSE, MagOfNat(i))

One == NumOfInt(1)

\* unary minus
NumNeg(a) == MkNum(~a.neg, a.mag)

ExactAdd(a, b) ==
  IF a.neg = b.neg THEN MkNum(a.neg, MagAdd(a.mag, b.mag))
  ELSE IF MagCmp(a.mag, b.mag) >= 0 THEN MkNum(a.neg, MagSub(a.mag, b.mag))
  ELSE MkNum(b.neg, MagSub(b.mag, a.mag))

\* a + b on Numbers
NumAdd(a, b) == LET s == ExactAdd(a, b) IN MkNum(s.neg, RoundMag(s.mag))

\* a * b on Numbers
NumMul(a, b) == MkNum(a.neg # b.neg, RoundMag(MagMul(a.mag, b.mag)))

\* a < b on Numbers
NumLt(a, b) ==
  IF a.neg # b.neg THEN a.neg
  ELSE IF a.neg THEN MagCmp(a.mag, b.mag) > 0 ELSE MagCmp(a.mag, b.mag) < 0

\* Math.abs
NumAbs(a) == MkNum(FALSE, a.mag)

(***************************************************************************)
(* src/polynomialSolver.js                                                 *)
(***************************************************************************)

\* result[t] of multiplyPolynomials: the products poly1[i] * poly2[j] with
\* i + j = t are added to the 0 the array was filled with, i ascending
RECURSIVE SumTerms(_, _, _, _, _)
SumTerms(poly1, poly2, t, i, acc) ==
  IF i > Len(poly1) THEN acc
  ELSE LET j == t + 1 - i
       IN  SumTerms(poly1, poly2, t, i + 1,
                    IF j >= 1 /\ j <= Len(poly2)
                    THEN NumAdd(acc, NumMul(poly1[i], poly2[j]))
                    ELSE acc)

multiplyPolynomials(poly1, poly2) ==
  [t \in 1..(Len(poly1) + Len(poly2) - 1) |-> SumTerms(poly1, poly2, t, 1, Zero)]

\* the factor with its coefficients in descending order
FactorDescending(root) == <<One, NumNeg(root)>>

\* const factor = [-root, 1]
Factor(root) == <<NumNeg(root), One>>

RECURSIVE FoldRoots(_, _)
FoldRoots(polynomial, rs) ==
  IF rs = <<>> THEN polynomial
  ELSE FoldRoots(multiplyPolynomials(polynomial, Factor(Head(rs))), Tail(rs))

buildPolynomial(rs) ==
  IF rs = <<>> THEN [threw |-> TRUE, coefficients |-> <<>>]
  ELSE [threw |-> FALSE, coefficients |-> FoldRoots(<<One>>, rs)]

RECURSIVE EvalLoop(_, _, _, _, _)
EvalLoop(coefficients, v, i, result, power) ==
  IF i > Len(coefficients) THEN result
  ELSE EvalLoop(coefficients, v, i + 1,
                NumAdd(result, NumMul(coefficients[i], power)),
                NumMul(power, v))

evaluatePolynomial(coefficients, v) == EvalLoop(coefficients, v, 1, Zero, One)

\* Math.abs(value) > tolerance, tolerance = 1e-10: of an integer-valued
\* Number, exactly the values other than 0
ExceedsTolerance(value) == NumAbs(value) # Zero

RECURSIVE verifyRoots(_, _)
verifyRoots(coefficients, rs) ==
  IF rs = <<>> THEN TRUE
  ELSE IF ExceedsTolerance(evaluatePolynomial(coefficients, Head(rs))) THEN FALSE
  ELSE verifyRoots(coefficients, Tail(rs))

(***************************************************************************)
(* JSON values as the input holds them: undefined (a missing field), a     *)
(* string (a sequence of one-character strings) or an integer number.      *)
(***************************************************************************)
JUndef == [t |-> "undefined", s |-> <<>>, n |-> 0]

JStr(chars) == [t |-> "string", s |-> chars, n |-> 0]

JNum(i) == [t |-> "number", s |-> <<>>, n |-> i]

\* !v is false
Truthy(v) ==
  CASE v.t = "undefined" -> FALSE
    [] v.t = "string"    -> v.s # <<>>
    [] v.t = "number"    -> v.n # 0

LowerDigits ==
  <<"0", "1", "2", "3", "4", "5", "6", "7", "8", "9",
    "a", "b", "c", "d", "e", "f", "g">>

UpperDigits ==
  <<"0", "1", "2", "3", "4", "5", "6", "7", "8", "9",
    "A", "B", "C", "D", "E", "F", "G">>

RECURSIVE NatToString(_, _, _)
NatToString(v, b, digits) ==
  IF v < b THEN <<digits[v + 1]>>
  ELSE Append(NatToString(v \div b, b, digits), digits[(v % b) + 1])

\* Number.prototype.toString(b) of an integer, with the digit letters of
\* `digits`
IntToString(v, b, digits) ==
  IF v < 0 THEN <<"-">> \o NatToString(-v, b, digits) ELSE NatToString(v, b, digits)

\* ToString of a JSON value handed to parseInt
ToString(v) ==
  CASE v.t = "string"    -> v.s
    [] v.t = "number"    -> IntToString(v.n, 10, LowerDigits)
    [] v.t = "undefined" -> <<"u", "n", "d", "e", "f", "i", "n", "e", "d">>

\* digits read in lower case only
DigitValueLowerOnly(c) ==
  IF \E i \in 1..Len(LowerDigits) : LowerDigits[i] = c
  THEN (CHOOSE i \in 1..Len(LowerDigits) : LowerDigits[i] = c) - 1
  ELSE -1

\* the value of a character as a digit, -1 when it is none. Letters after g
\* are digits only of radices above 17, which no call here uses.
DigitValue(c) ==
  IF \E i \in 1..Len(LowerDigits) : LowerDigits[i] = c
  THEN (CHOOSE i \in 1..Len(LowerDigits) : LowerDigits[i] = c) - 1
  ELSE IF \E i \in 1..Len(UpperDigits) : UpperDigits[i] = c
  THEN (CHOOSE i \in 1..Len(UpperDigits) : UpperDigits[i] = c) - 1
  ELSE -1

IsDigitOf(c, R) == DigitValue(c) >= 0 /\ DigitValue(c) < R

RECURSIVE TrimStart(_)
TrimStart(S) == IF S # <<>> /\ Head(S) = " " THEN TrimStart(Tail(S)) ELSE S

RECURSIVE DigitPrefix(_, _)
DigitPrefix(S, R) ==
  IF S # <<>> /\ IsDigitOf(Head(S), R) THEN <<Head(S)>> \o DigitPrefix(Tail(S), R)
  ELSE <<>>

RECURSIVE MagOfDigits(_, _, _)
MagOfDigits(Z, R, acc) ==
  IF Z = <<>> THEN acc
  ELSE MagOfDigits(Tail(Z), R,
                   Norm(MagMulLimb(acc, R, DigitValue(Head(Z)))))

NaN == [nan |-> TRUE, num |-> Zero]

Finite(num) == [nan |-> FALSE, num |-> num]

\* parseInt(string, radix) of ECMAScript, radix already ToInt32: leading
\* white space and a sign are skipped, radix 0 means 10, a 0x prefix is
\* removed (and makes the radix 16) when the radix is 0 or 16, and the
\* longest prefix of digits is the value; NaN when that prefix is empty.
parseInt(string, radix) ==
  LET S0    == TrimStart(string)
      neg   == S0 # <<>> /\ Head(S0) = "-"
      S1    == IF S0 # <<>> /\ Head(S0) \in {"-", "+"} THEN Tail(S0) ELSE S0
      strip == radix = 0 \/ radix = 16
      hex   == strip /\ Len(S1) >= 2 /\ S1[1] = "0" /\ S1[2] \in {"x", "X"}
      R     == IF hex THEN 16 ELSE IF radix = 0 THEN 10 ELSE radix
      S2    == IF hex THEN SubSeq(S1, 3, Len(S1)) ELSE S1
      Z     == DigitPrefix(S2, R)
  IN  IF radix # 0 /\ (radix < 2 \/ radix > 36) THEN NaN
      ELSE IF Z = <<>> THEN NaN
      ELSE Finite(MkNum(neg, RoundMag(MagOfDigits(Z, R, <<>>))))

\* ToInt32 of a base: NaN becomes 0. It is applied only to a base that passed
\* convertToDecimal's range test: NaN or an integer of 2..16, a single limb.
ToInt32(base) ==
  IF base.nan \/ base.num.mag = <<>> THEN 0
  ELSE IF base.num.neg THEN -base.num.mag[1] ELSE base.num.mag[1]

(***************************************************************************)
(* base conversion module                                                  *)
(***************************************************************************)
Threw(error) == [threw |-> TRUE, error |-> error, decimal |-> Zero]

Returned(decimal) == [threw |-> FALSE, error |-> "", decimal |-> decimal]

\* base < 2 || base > 16: both comparisons are false of NaN
BaseOutOfRange(base) ==
  /\ ~base.nan
  /\ (NumLt(base.num, NumOfInt(2)) \/ NumLt(NumOfInt(16), base.num))

\* typeof value !== 'string' || value.length === 0
NotNonEmptyString(value) == value.t # "string" \/ value.s = <<>>

convertToDecimal(value, base) ==
  IF BaseOutOfRange(base) THEN Threw("UnsupportedBase")
  ELSE IF NotNonEmptyString(value) THEN Threw("NotNonEmptyString")
  ELSE LET decimal == parseInt(value.s, ToInt32(base))
       IN  IF decimal.nan THEN Threw("InvalidValue") ELSE Returned(decimal.num)

(***************************************************************************)
(* State. build*: a run of buildPolynomial and verifyRoots; c*, rt*: a     *)
(* call of convertToDecimal; the rest: a run of main (src/index.js).       *)
(***************************************************************************)
VARIABLES bRoots, bpc, polynomial, idx, vidx, rootsValid,
          cValue, cBase, cpc, cResult, rtV,
          file, jsonData, pc, pending, roots, used, coefficients,
          mainRootsValid, buildInvoked, stdout, stderr, exitCode

buildVars == <<bRoots, bpc, polynomial, idx, vidx, rootsValid>>

convVars == <<cValue, cBase, cpc, cResult, rtV>>

mainVars == <<file, jsonData, pc, pending, roots, used, coefficients,
              mainRootsValid, buildInvoked, stdout, stderr, exitCode>>

vars == <<buildVars, convVars, mainVars>>

EmptyDoc == [hasKeys |-> FALSE, n |-> JUndef, k |-> JUndef, entries |-> <<>>]

IdleBuild ==
  /\ bRoots = <<>> /\ bpc = "idle" /\ polynomial = <<>>
  /\ idx = 0 /\ vidx = 0 /\ rootsValid = FALSE

IdleConv ==
  /\ cValue = JUndef /\ cBase = NaN /\ cpc = "idle"
  /\ cResult = Returned(Zero) /\ rtV = -1

IdleMain ==
  /\ file = "none" /\ jsonData = EmptyDoc /\ pc = "idle"
  /\ pending = <<>> /\ roots = <<>> /\ used = <<>> /\ coefficients = <<>>
  /\ mainRootsValid = FALSE /\ buildInvoked = FALSE
  /\ stdout = <<>> /\ stderr = <<>> /\ exitCode = 0

RECURSIVE SeqsUpTo(_, _)
SeqsUpTo(S, n) ==
  IF n = 0 THEN {<<>>}
  ELSE LET prev == SeqsUpTo(S, n - 1)
       IN  prev \cup {Append(s, e) : s \in {q \in prev : Len(q) = n - 1}, e \in S}

(***************************************************************************)
(* SpecBuild: buildPolynomial and verifyRoots applied to bounded root      *)
(* lists, one loop iteration per step.                                     *)
(***************************************************************************)
MaxRoots == 3

\* 2^26 + 1, 2^27 - 1 and 2^27 + 1 have products beyond 2^53
RootValues == {0, 4, 7, 12, -5, 2^26 + 1, 2^27 - 1, 2^27 + 1}

NumSeq(is) == [i \in 1..Len(is) |-> NumOfInt(is[i])]

InitBuild ==
  /\ bRoots \in {NumSeq(is) : is \in SeqsUpTo(RootValues, MaxRoots)}
  /\ bpc = "build"
  /\ polynomial = <<One>>
  /\ idx = 0
  /\ vidx = 0
  /\ rootsValid = FALSE
  /\ IdleConv
  /\ IdleMain

\* if (!roots || roots.length === 0) throw
BuildThrow ==
  /\ bpc = "build" /\ bRoots = <<>>
  /\ bpc' = "threw"
  /\ UNCHANGED <<bRoots, polynomial, idx, vidx, rootsValid, convVars, mainVars>>

\* one iteration of for (let root of roots)
BuildStep ==
  /\ bpc = "build" /\ bRoots # <<>> /\ idx < Len(bRoots)
  /\ polynomial' = multiplyPolynomials(polynomial, Factor(bRoots[idx + 1]))
  /\ idx' = idx + 1
  /\ UNCHANGED <<bRoots, bpc, vidx, rootsValid, convVars, mainVars>>

\* return polynomial; the caller goes on to verifyRoots
BuildReturn ==
  /\ bpc = "build" /\ bRoots # <<>> /\ idx = Len(bRoots)
  /\ bpc' = "verify"
  /\ UNCHANGED <<bRoots, polynomial, idx, vidx, rootsValid, convVars, mainVars>>

\* one iteration of verifyRoots' loop whose root passes the tolerance test
VerifyPass ==
  /\ bpc = "verify" /\ vidx < Len(bRoots)
  /\ ~ExceedsTolerance(evaluatePolynomial(polynomial, bRoots[vidx + 1]))
  /\ vidx' = vidx + 1
  /\ UNCHANGED <<bRoots, bpc, polynomial, idx, rootsValid, convVars, mainVars>>

\* console.warn(...); return false
VerifyFail ==
  /\ bpc = "verify" /\ vidx < Len(bRoots)
  /\ ExceedsTolerance(evaluatePolynomial(polynomial, bRoots[vidx + 1]))
  /\ rootsValid' = FALSE
  /\ bpc' = "done"
  /\ UNCHANGED <<bRoots, polynomial, idx, vidx, convVars, mainVars>>

\* return true
VerifyReturn ==
  /\ bpc = "verify" /\ vidx = Len(bRoots)
  /\ rootsValid' = TRUE
  /\ bpc' = "done"
  /\ UNCHANGED <<bRoots, polynomial, idx, vidx, convVars, mainVars>>

NextBuild ==
  \/ BuildThrow
  \/ BuildStep
  \/ BuildReturn
  \/ VerifyPass
  \/ VerifyFail
  \/ VerifyReturn

SpecBuild == InitBuild /\ [][NextBuild]_vars

RECURSIVE PermsOf(_)
PermsOf(s) ==
  IF s = <<>> THEN {<<>>}
  ELSE UNION {{<<s[i]>> \o p :
                 p \in PermsOf([j \in 1..(Len(s) - 1) |->
                                       IF j < i THEN s[j] ELSE s[j + 1]])} :
              i \in 1..Len(s)}

Big(r) == BitLen(r.mag) > 26

C2_RootsEvaluateToZero ==
  bpc = "done" =>
     /\ \A i \in 1..Len(bRoots) : evaluatePolynomial(polynomial, bRoots[i]) = Zero
     /\ rootsValid

\* C3: every permutation of the root list yields the same coefficients.
C3_PermutationInvariant ==
  bpc = "verify" =>
     \A p \in PermsOf(bRoots) : buildPolynomial(p).coefficients = polynomial

\* C4: the roots [4, 7, 12] give the coefficients [336, -172, 23, -1].
C4_ReadmeTestCase1 ==
  (bpc = "verify" /\ bRoots = NumSeq(<<4, 7, 12>>)) =>
     polynomial = NumSeq(<<336, -172, 23, -1>>)

(***************************************************************************)
(* SpecConv: convertToDecimal applied to bounded (value, base) pairs: every *)
(* string over Alphabet up to MaxLen characters and two non-strings, with  *)
(* every base of Bases; and the digit strings of the integers of           *)
(* RoundTripValues in every base 2..16, in lower and in upper case (rtV is *)
(* the integer the string was written from, -1 for the other inputs).      *)
(***************************************************************************)
MaxLen == 3

MaxValue == 300

MaxBase == 18

Alphabet == {"0", "1", "9", "a", "F", "g", "x", "-", " "}

Bases == {Finite(NumOfInt(b)) : b \in -1..MaxBase} \cup {NaN}

RoundTripValues == 0..MaxValue \cup {2^15, 2^16 - 1, 2^20 + 7, 2^30 + 1}

InitConv ==
  /\ \/ /\ cValue \in {JStr(str) : str \in SeqsUpTo(Alphabet, MaxLen)}
                      \cup {JNum(7), JUndef}
        /\ cBase \in Bases
        /\ rtV = -1
     \/ \E v \in RoundTripValues, b \in 2..16, digits \in {LowerDigits, UpperDigits} :
          /\ cValue = JStr(IntToString(v, b, digits))
          /\ cBase = Finite(NumOfInt(b))
          /\ rtV = v
  /\ cpc = "call"
  /\ cResult = Returned(Zero)
  /\ IdleBuild
  /\ IdleMain

\* a call that ends in one of the three throw statements
ConvertThrow ==
  /\ cpc = "call"
  /\ convertToDecimal(cValue, cBase).threw
  /\ cResult' = convertToDecimal(cValue, cBase)
  /\ cpc' = "threw"
  /\ UNCHANGED <<cValue, cBase, rtV, buildVars, mainVars>>

\* return decimal
ConvertReturn ==
  /\ cpc = "call"
  /\ ~convertToDecimal(cValue, cBase).threw
  /\ cResult' = convertToDecimal(cValue, cBase)
  /\ cpc' = "returned"
  /\ UNCHANGED <<cValue, cBase, rtV, buildVars, mainVars>>

NextConv ==
  \/ ConvertThrow
  \/ ConvertReturn

SpecConv == InitConv /\ [][NextConv]_vars

BaseInRange(base) == ~base.nan /\ ~BaseOutOfRange(base)

\* C5: for a base in 2..16, a value that is empty or holds, at any position,
\* a character that is no digit of the base makes convertToDecimal fail with
\* an invalid-digit-string error; no number is returned for it.
C5_IllegalDigitRejected ==
  (/\ cpc # "call"
   /\ BaseInRange(cBase)
   /\ cValue.t = "string"
   /\ \/ cValue.s = <<>>
      \/ \E i \in 1..Len(cValue.s) : ~IsDigitOf(cValue.s[i], ToInt32(cBase)))
  => /\ cpc = "threw"
     /\ cResult.error \in {"NotNonEmptyString", "InvalidValue"}

\* C7: the digit string of a non-negative integer v in a base b of 2..16,
\* letters in either case, is converted back to exactly v.
C7_RoundTrip ==
  rtV >= 0 =>
     /\ cpc = "call" => ~convertToDecimal(cValue, cBase).threw
     /\ cpc # "call" => (cpc = "returned" /\ cResult = Returned(NumOfInt(rtV)))

C7_Witness ==
  /\ cpc = "returned"
  /\ rtV = 255
  /\ cValue = JStr(<<"F", "F">>)
  /\ cResult.decimal = NumOfInt(255)

(***************************************************************************)
(* src/index.js: a run of main. jsonData is the parsed input: whether it   *)
(* has the "keys" object, keys.n, keys.k, and its other properties in the  *)
(* order the file declares them, each [key, base, value].                  *)
(***************************************************************************)

\* a canonical array index: for-in visits these keys first, ascending
IsArrayIndex(key) ==
  /\ key # <<>>
  /\ \A i \in 1..Len(key) : IsDigitOf(key[i], 10)
  /\ (Len(key) = 1 \/ key[1] # "0")

RECURSIVE KeyIndex(_, _)
KeyIndex(key, acc) ==
  IF key = <<>> THEN acc ELSE KeyIndex(Tail(key), 10 * acc + DigitValue(Head(key)))

RECURSIVE InsertByIndex(_, _)
InsertByIndex(e, sorted) ==
  IF sorted = <<>> THEN <<e>>
  ELSE IF KeyIndex(e.key, 0) < KeyIndex(Head(sorted).key, 0) THEN <<e>> \o sorted
  ELSE <<Head(sorted)>> \o InsertByIndex(e, Tail(sorted))

RECURSIVE SortByIndex(_)
SortByIndex(es) ==
  IF es = <<>> THEN <<>> ELSE InsertByIndex(Head(es), SortByIndex(Tail(es)))

\* for (let key in jsonData), "keys" left out: the array-index keys in
\* ascending numeric order, then the other keys in the order of declaration
ForInOrder(entries) ==
  SortByIndex(SelectSeq(entries, LAMBDA e : IsArrayIndex(e.key)))
    \o SelectSeq(entries, LAMBDA e : ~IsArrayIndex(e.key))

\* Number.isInteger
IsInteger(v) == v.t = "number"

\* !jsonData.keys || !jsonData.keys.n || !jsonData.keys.k
KeysMissing(doc) == ~doc.hasKeys \/ ~Truthy(doc.n) \/ ~Truthy(doc.k)

InvalidN(doc) == ~IsInteger(doc.n) \/ doc.n.n < 1

InvalidK(doc) == ~IsInteger(doc.k) \/ doc.k.n < 1 \/ doc.k.n > doc.n.n

\* the error of lines 89-102, "" when there is none
ValidationError(doc) ==
  IF KeysMissing(doc) THEN "MissingKeys"
  ELSE IF InvalidN(doc) THEN "InvalidN"
  ELSE IF InvalidK(doc) THEN "InvalidK"
  ELSE ""

\* const base = parseInt(rootData.base)
BaseOf(rootData) == parseInt(ToString(rootData.base), 0)

\* the body of the for-in loop for one root: the error it throws ("" when
\* none) and the decimal value it pushes
ProcessRoot(rootData) ==
  IF ~Truthy(rootData.base) \/ ~Truthy(rootData.value)
  THEN Threw("InvalidRootData")
  ELSE LET res == convertToDecimal(rootData.value, BaseOf(rootData))
       IN  IF res.threw THEN Threw("RootProcessing") ELSE res

\* the error of lines 124-130, "" when there is none
CountError(rs, k) ==
  IF Len(rs) = 0 THEN "NoRoots"
  ELSE IF Len(rs) < k THEN "InsufficientRoots"
  ELSE ""

\* roots.slice(0, k)
Slice(rs, k) == SubSeq(rs, 1, IF k < Len(rs) THEN k ELSE Len(rs))

BannerLines == <<"banner", "rule", "inputFile">>

SummaryLines == <<"inputSummary", "n", "k", "degree", "rootsUsed", "blank">>

ResultLines == <<"results", "coefficients", "standardForm", "keyCoefficients",
                 "rootVerification", "evaluations", "completed">>

\* a catch block that reports the error and leaves the exit status alone
CatchWithoutExit(error) ==
  /\ stderr' = Append(stderr, error)
  /\ exitCode' = exitCode
  /\ pc' = "failed"

\* catch (error) { console.error(...); process.exit(1); }
Catch(error) ==
  /\ stderr' = Append(stderr, error)
  /\ exitCode' = 1
  /\ pc' = "failed"

MaxEntries == 2

Keys == {<<"2">>, <<"1", "0">>, <<"r">>}

RootDatas ==
  { [base |-> JStr(<<"1", "0">>), value |-> JStr(<<"1", "2">>)],
    [base |-> JNum(16),           value |-> JStr(<<"f", "F">>)],
    [base |-> JStr(<<"2">>),      value |-> JStr(<<"1", "1", "1">>)],
    [base |-> JStr(<<"1", "7">>), value |-> JStr(<<"1">>)],
    [base |-> JStr(<<"1", "6">>), value |-> JStr(<<"g">>)],
    [base |-> JStr(<<"x">>),      value |-> JStr(<<"7">>)],
    [base |-> JUndef,             value |-> JStr(<<"4">>)] }

NValues == {JUndef, JNum(0), JNum(1), JNum(2), JNum(3)}

KValues == {JUndef, JNum(-1), JNum(0), JNum(1), JNum(2), JNum(3), JStr(<<"2">>)}

DistinctKeys(entries) ==
  \A i, j \in 1..Len(entries) : i # j => entries[i].key # entries[j].key

Entries ==
  {es \in SeqsUpTo({[key |-> key, base |-> rd.base, value |-> rd.value] :
                      key \in Keys, rd \in RootDatas}, MaxEntries) :
     DistinctKeys(es)}

Docs ==
  {[hasKeys |-> TRUE, n |-> n, k |-> k, entries |-> es] :
     n \in NValues, k \in KValues, es \in Entries}
  \cup {EmptyDoc}

Init ==
  /\ \/ file \in {"missing", "malformed"} /\ jsonData = EmptyDoc
     \/ file = "ok" /\ jsonData \in Docs
  /\ pc = "start"
  /\ pending = <<>>
  /\ roots = <<>>
  /\ used = <<>>
  /\ coefficients = <<>>
  /\ mainRootsValid = FALSE
  /\ buildInvoked = FALSE
  /\ stdout = <<>>
  /\ stderr = <<>>
  /\ exitCode = 0
  /\ IdleBuild
  /\ IdleConv

\* lines 30-32
Banner ==
  /\ pc = "start"
  /\ stdout' = stdout \o BannerLines
  /\ pc' = "read"
  /\ UNCHANGED <<file, jsonData, pending, roots, used, coefficients,
                 mainRootsValid, buildInvoked, stderr, exitCode,
                 buildVars, convVars>>

\* readAndParseJSON throws
ReadFail ==
  /\ pc = "read" /\ file # "ok"
  /\ Catch(IF file = "missing" THEN "FileNotFound" ELSE "InvalidJSON")
  /\ UNCHANGED <<file, jsonData, pending, roots, used, coefficients,
                 mainRootsValid, buildInvoked, stdout, buildVars, convVars>>

ReadOk ==
  /\ pc = "read" /\ file = "ok"
  /\ pc' = "validate"
  /\ UNCHANGED <<file, jsonData, pending, roots, used, coefficients,
                 mainRootsValid, buildInvoked, stdout, stderr, exitCode,
                 buildVars, convVars>>

\* extractInputData, lines 89-102, one of the three throws
ValidateFail ==
  /\ pc = "validate" /\ ValidationError(jsonData) # ""
  /\ Catch(ValidationError(jsonData))
  /\ UNCHANGED <<file, jsonData, pending, roots, used, coefficients,
                 mainRootsValid, buildInvoked, stdout, buildVars, convVars>>

\* extractInputData, lines 89-105, no throw: the for-in loop starts
ValidateOk ==
  /\ pc = "validate" /\ ValidationError(jsonData) = ""
  /\ pending' = ForInOrder(jsonData.entries)
  /\ roots' = <<>>
  /\ pc' = "extract"
  /\ UNCHANGED <<file, jsonData, used, coefficients, mainRootsValid,
                 buildInvoked, stdout, stderr, exitCode, buildVars, convVars>>

\* one iteration of the for-in loop that throws
ExtractRootFail ==
  /\ pc = "extract" /\ pending # <<>>
  /\ ProcessRoot(Head(pending)).threw
  /\ Catch(ProcessRoot(Head(pending)).error)
  /\ UNCHANGED <<file, jsonData, pending, roots, used, coefficients,
                 mainRootsValid, buildInvoked, stdout, buildVars, convVars>>

\* one iteration of the for-in loop that pushes a root
ExtractRootOk ==
  /\ pc = "extract" /\ pending # <<>>
  /\ ~ProcessRoot(Head(pending)).threw
  /\ roots' = Append(roots, ProcessRoot(Head(pending)).decimal)
  /\ pending' = Tail(pending)
  /\ UNCHANGED <<file, jsonData, pc, used, coefficients, mainRootsValid,
                 buildInvoked, stdout, stderr, exitCode, buildVars, convVars>>

\* lines 124-130, one of the two throws
CountFail ==
  /\ pc = "extract" /\ pending = <<>>
  /\ CountError(roots, jsonData.k.n) # ""
  /\ Catch(CountError(roots, jsonData.k.n))
  /\ UNCHANGED <<file, jsonData, pending, roots, used, coefficients,
                 mainRootsValid, buildInvoked, stdout, buildVars, convVars>>

\* return { n, k, roots }, then lines 40-45 of main
Summary ==
  /\ pc = "extract" /\ pending = <<>>
  /\ CountError(roots, jsonData.k.n) = ""
  /\ stdout' = stdout \o SummaryLines
  /\ pc' = "build"
  /\ UNCHANGED <<file, jsonData, pending, roots, used, coefficients,
                 mainRootsValid, buildInvoked, stderr, exitCode,
                 buildVars, convVars>>

\* const coefficients = buildPolynomial(roots.slice(0, k))
Build ==
  /\ pc = "build"
  /\ used' = Slice(roots, jsonData.k.n)
  /\ buildInvoked' = TRUE
  /\ LET res == buildPolynomial(Slice(roots, jsonData.k.n))
     IN  IF res.threw
         THEN /\ Catch("EmptyRoots")
              /\ UNCHANGED coefficients
         ELSE /\ coefficients' = res.coefficients
              /\ pc' = "verify"
              /\ UNCHANGED <<stderr, exitCode>>
  /\ UNCHANGED <<file, jsonData, pending, roots, mainRootsValid, stdout,
                 buildVars, convVars>>

\* const rootsValid = verifyRoots(coefficients, roots.slice(0, k))
Verify ==
  /\ pc = "verify"
  /\ mainRootsValid' = verifyRoots(coefficients, Slice(roots, jsonData.k.n))
  /\ pc' = "display"
  /\ UNCHANGED <<file, jsonData, pending, roots, used, coefficients,
                 buildInvoked, stdout, stderr, exitCode, buildVars, convVars>>

\* displayResults
Display ==
  /\ pc = "display"
  /\ stdout' = stdout \o ResultLines
  /\ pc' = "done"
  /\ UNCHANGED <<file, jsonData, pending, roots, used, coefficients,
                 mainRootsValid, buildInvoked, stderr, exitCode,
                 buildVars, convVars>>

Next ==
  \/ Banner
  \/ ReadFail
  \/ ReadOk
  \/ ValidateFail
  \/ ValidateOk
  \/ ExtractRootFail
  \/ ExtractRootOk
  \/ CountFail
  \/ Summary
  \/ Build
  \/ Verify
  \/ Display

Spec == Init /\ [][Next]_vars

KOutsideRange(doc) ==
  /\ doc.hasKeys
  /\ IsInteger(doc.n) /\ doc.n.n >= 1
  /\ IsInteger(doc.k) /\ (doc.k.n < 1 \/ doc.k.n > doc.n.n)

Extracted == pc \in {"build", "verify", "display", "done"}

\* the roots in the order the input declares them
Declared ==
  [i \in 1..Len(jsonData.entries) |-> ProcessRoot(jsonData.entries[i]).decimal]

\* C6: no root whose base does not parse to an integer in 2..16 is ever
\* converted to a number.
C6_BaseOutsideRangeNeverConverted ==
  \A i \in 1..Len(roots) : BaseInRange(BaseOf(ForInOrder(jsonData.entries)[i]))

\* C8: the roots handed to buildPolynomial are the first k declared roots,
\* in the order of declaration.
C8_FirstKInDeclarationOrder ==
  pc \in {"verify", "display", "done"} =>
     used = SubSeq(Declared, 1, jsonData.k.n)

\* C9: a k outside [1, n] (k = 0 and negative k included) fails with the
\* invalid-range error, not the missing-field one; too few roots for k fail
\* too; extractInputData never returns with k outside [1, n] or fewer than k
\* roots.
C9_InvalidRange ==
  /\ (file = "ok" /\ KOutsideRange(jsonData) /\ pc \notin {"start", "read", "validate"})
       => (pc = "failed" /\ stderr = <<"InvalidK">>)
  /\ (pc = "failed" /\ stderr \in {<<"NoRoots">>, <<"InsufficientRoots">>})
       => Len(roots) < jsonData.k.n
  /\ Extracted =>
       /\ jsonData.k.n \in 1..jsonData.n.n
       /\ Len(roots) >= jsonData.k.n

\* C10 as stated: a failed run ends with status 1 and an error message, has
\* emitted no output at all, and never invoked buildPolynomial.
C10_NoOutputOnFailure ==
  pc = "failed" =>
     /\ exitCode = 1
     /\ stderr # <<>>
     /\ stdout = <<>>
     /\ ~buildInvoked

\* C10 amended: a run in which reading, validation or conversion fails ends
\* with status 1 and one error message; the banner and the input file line
\* are all it has written to the standard output (no input summary, no
\* coefficients, no other result), buildPolynomial was never invoked, and
\* nothing happens after the failure.
C10_FailFast ==
  /\ [](pc = "failed" =>
          /\ exitCode = 1
          /\ Len(stderr) = 1
          /\ stdout = BannerLines
          /\ ~buildInvoked
          /\ coefficients = <<>>)
  /\ [](pc # "failed" => (exitCode = 0 /\ stderr = <<>>))
  /\ [][pc # "failed"]_vars

\* the conversion of a later root fails after an earlier one was converted
C10_Witness ==
  /\ pc = "failed"
  /\ stderr = <<"RootProcessing">>
  /\ roots # <<>>

====
